---- MODULE Spec2Model ----
(***************************************************************************)
(* A model of TikTokDownloader (src/src/TikTokDownloader.ts).              *)
(*                                                                         *)
(* URL strings are sequences of one-character strings, so that trim,       *)
(* includes and the regular expressions of cleanTikTokUrl,                 *)
(* isValidTikTokUrl and extractVideoId are computed character by           *)
(* character.  JSON values (the rehydration blob of the page, the body of  *)
(* the mirror API) are tagged records.  One downloadVideo call is a        *)
(* process with two suspension points, the two awaited axios.get calls.    *)
(***************************************************************************)
EXTENDS Integers, Sequences, FiniteSets, TLC

VARIABLES options, pc, url, cleanUrl, videoData, result, net, sent, got, raised,
          interleaved

vars == <<options, pc, url, cleanUrl, videoData, result, net, sent, got, raised,
          interleaved>>

(***************************************************************************)
(* Bounds of the model.                                                    *)
(***************************************************************************)
\* longest run of digits used as a video id in an input URL
MaxIdLen == 2
\* largest value of a statistics counter in a page fixture
MaxCount == 1
\* number of downloadVideo calls sharing the instance in SpecConc
NumCalls == 2

\* options.timeout ?? 30000
DefaultTimeout == 30000

(***************************************************************************)
(* Characters and strings.                                                 *)
(***************************************************************************)
Digits == {"0", "1", "2", "3", "4", "5", "6", "7", "8", "9"}
Letters == {"a", "b", "c", "d", "e", "f", "g", "h", "i", "j", "k", "l", "m",
            "n", "o", "p", "q", "r", "s", "t", "u", "v", "w", "x", "y", "z",
            "A", "B", "C", "D", "E", "F", "G", "H", "I", "J", "K", "L", "M",
            "N", "O", "P", "Q", "R", "S", "T", "U", "V", "W", "X", "Y", "Z"}
WhiteSpace == {" ", "\t", "\n"}

\* the character classes of the patterns: \d, [A-Za-z0-9] and [^/]
InClass(ch, class) ==
    CASE class = "digit" -> ch \in Digits
      [] class = "alnum" -> ch \in Digits \cup Letters
      [] class = "notSlash" -> ch # "/"

SetMin(S) == CHOOSE x \in S : \A y \in S : x <= y
SetMax(S) == CHOOSE x \in S : \A y \in S : y <= x

\* the literal lit occurs in s at position i
StartsWithAt(s, i, lit) ==
    /\ i + Len(lit) - 1 <= Len(s)
    /\ \A k \in 1..Len(lit) : s[i + k - 1] = lit[k]

\* String.prototype.includes
Includes(s, lit) == \E i \in 1..(Len(s) + 1) : StartsWithAt(s, i, lit)

\* String.prototype.trim
trim(s) ==
    LET keep == {i \in 1..Len(s) : s[i] \notin WhiteSpace}
    IN  IF keep = {} THEN <<>> ELSE SubSeq(s, SetMin(keep), SetMax(keep))

(***************************************************************************)
(* Regular expressions, as transformers of sets of positions: from the     *)
(* positions P the match may have reached, the positions it may reach      *)
(* after one more piece of the pattern.                                    *)
(***************************************************************************)
\* a literal
Lit(s, P, lit) == {p + Len(lit) : p \in {q \in P : StartsWithAt(s, q, lit)}}

\* class+ : one or more characters of the class C
Plus(s, P, class) ==
    UNION {{q \in (p + 1)..(Len(s) + 1) : \A k \in p..(q - 1) : InClass(s[k], class)} :
              p \in P}

L_http == <<"h", "t", "t", "p">>
L_s == <<"s">>
L_css == <<":", "/", "/">>
L_www == <<"w", "w", "w", ".">>
L_tiktokAt == <<"t", "i", "k", "t", "o", "k", ".", "c", "o", "m", "/", "@">>
L_video == <<"/", "v", "i", "d", "e", "o", "/">>
L_vm == <<"v", "m", ".", "t", "i", "k", "t", "o", "k", ".", "c", "o", "m">>
L_vt == <<"v", "t", ".", "t", "i", "k", "t", "o", "k", ".", "c", "o", "m">>
L_mv == <<"m", ".", "t", "i", "k", "t", "o", "k", ".", "c", "o", "m", "/", "v", "/">>
L_slash == <<"/">>
L_v == <<"/", "v", "/">>
L_videoId == <<"v", "i", "d", "e", "o", "_", "i", "d", "=">>

\* https?:\/\/
ReScheme(s, P) ==
    LET h == Lit(s, P, L_http)
    IN  Lit(s, h \cup Lit(s, h, L_s), L_css)

\* (?:www\.)?tiktok\.com\/@[^/]+\/video\/\d+
ReCanonicalTail(s, P) ==
    LET w == P \cup Lit(s, P, L_www)
        a == Lit(s, w, L_tiktokAt)
        h == Plus(s, a, "notSlash")
        v == Lit(s, h, L_video)
    IN  Plus(s, v, "digit")

\* /(?:https?:\/\/)?(?:www\.)?tiktok\.com\/@[^/]+\/video\/\d+/ tried at i:
\* the positions where a match that starts at i may end
ReCleanEnds(s, i) == ReCanonicalTail(s, {i} \cup ReScheme(s, {i}))

(***************************************************************************)
(* cleanTikTokUrl.  String.prototype.match returns the leftmost match; at  *)
(* that start every piece but the last is forced (the scheme, www. and     *)
(* tiktok.com begin with different letters, [^/]+ ends at the next /), and *)
(* the greedy \d+ takes the longest run: match[0] ends at the largest end. *)
(***************************************************************************)
cleanTikTokUrl(raw) ==
    LET u == trim(raw)
    IN  IF Includes(u, L_vm) \/ Includes(u, L_vt)
        THEN u
        ELSE LET starts == {i \in 1..Len(u) : ReCleanEnds(u, i) # {}}
             IN  IF starts = {}
                 THEN u
                 ELSE LET i == SetMin(starts)
                      IN  SubSeq(u, i, SetMax(ReCleanEnds(u, i)) - 1)

\* the four anchored patterns of isValidTikTokUrl, in order
ValidPattern1(u) == ReCanonicalTail(u, ReScheme(u, {1})) # {}
ValidPattern2(u) ==
    Plus(u, Lit(u, Lit(u, ReScheme(u, {1}), L_vm), L_slash), "alnum") # {}
ValidPattern3(u) ==
    Plus(u, Lit(u, Lit(u, ReScheme(u, {1}), L_vt), L_slash), "alnum") # {}
ValidPattern4(u) == Plus(u, Lit(u, ReScheme(u, {1}), L_mv), "digit") # {}

\* a faulty variant: the mobile pattern is left out of the list
isValidTikTokUrlNoMobile(u) == ValidPattern1(u) \/ ValidPattern2(u) \/ ValidPattern3(u)

isValidTikTokUrl(u) ==
    ValidPattern1(u) \/ ValidPattern2(u) \/ ValidPattern3(u) \/ ValidPattern4(u)

null == [t |-> "null"]
\* a JavaScript string value holding the characters s
Str(s) == [t |-> "string", s |-> s]

\* url.match(/<lit>(\d+)/): the capture group of the leftmost match, or null
MatchDigitsAfter(u, lit) ==
    LET starts == {i \in 1..Len(u) : Plus(u, Lit(u, {i}, lit), "digit") # {}}
    IN  IF starts = {}
        THEN null
        ELSE LET i == SetMin(starts)
             IN  Str(SubSeq(u, i + Len(lit),
                            SetMax(Plus(u, Lit(u, {i}, lit), "digit")) - 1))

extractVideoId(u) ==
    IF MatchDigitsAfter(u, L_video) # null THEN MatchDigitsAfter(u, L_video)
    ELSE IF MatchDigitsAfter(u, L_v) # null THEN MatchDigitsAfter(u, L_v)
    ELSE IF MatchDigitsAfter(u, L_videoId) # null THEN MatchDigitsAfter(u, L_videoId)
    ELSE null

(***************************************************************************)
(* JavaScript values: undefined, null, booleans, numbers, strings (Str)    *)
(* and objects, a function from the keys present to their values.          *)
(***************************************************************************)
undefined == [t |-> "undefined"]
JNum(n) == [t |-> "number", n |-> n]
JObj(fields) == [t |-> "object", o |-> fields]
EmptyObj == JObj(<<>>)

\* ToBoolean
Truthy(v) ==
    CASE v.t = "undefined" -> FALSE
      [] v.t = "null" -> FALSE
      [] v.t = "number" -> v.n # 0
      [] v.t = "string" -> v.s # <<>>
      [] v.t = "boolean" -> v.b
      [] OTHER -> TRUE

\* reading a property of undefined or null throws a TypeError
Nullish(v) == v.t \in {"undefined", "null"}

\* v[k] for a v that is not nullish: undefined when the key is absent
Get(v, k) == IF v.t = "object" /\ k \in DOMAIN v.o THEN v.o[k] ELSE undefined

\* a || b
Or(a, b) == IF Truthy(a) THEN a ELSE b

\* a ?? b on an options object: the key may be absent
Coalesce(obj, k, dflt) ==
    IF k \in DOMAIN obj /\ ~Nullish(obj[k]) THEN obj[k] ELSE dflt

JTrue == [t |-> "boolean", b |-> TRUE]
JFalse == [t |-> "boolean", b |-> FALSE]

(***************************************************************************)
(* Exceptions.                                                             *)
(***************************************************************************)
Error(name, message) == [name |-> name, message |-> message, isError |-> TRUE]

\* url.trim() on a value that is not a string
TrimTypeError == Error("TypeError", "url.trim is not a function")
PropertyTypeError == Error("TypeError", "Cannot read properties of undefined")
\* what url.trim() throws for the value u
TrimError(u) == IF u.t \in {"undefined", "null"} THEN PropertyTypeError ELSE TrimTypeError
JsonSyntaxError == Error("SyntaxError", "Unexpected token in JSON")
NoScriptError == Error("Error", "Could not find video data in page")
BadStructureError == Error("Error", "Video data structure is invalid")
\* what axios.get rejects with
NetworkError == Error("AxiosError", "Network Error")
TimeoutError == Error("AxiosError", "timeout of 30000ms exceeded")
HttpStatusError == Error("AxiosError", "Request failed with status code 500")

Threw(e) == [threw |-> TRUE, error |-> e]
Value(v) == [threw |-> FALSE, value |-> v]

(***************************************************************************)
(* The constructor.                                                        *)
(***************************************************************************)
\* 'high', and the fixed default user agent, shortened (with the user-agents
\* package installed the default is a random browser string)
S_high == <<"h", "i", "g", "h">>
S_agent == <<"M", "o", "z", "i", "l", "l", "a", "/", "5", ".", "0">>

Constructor(opts) ==
    [includeWatermark |-> Coalesce(opts, "includeWatermark", JFalse),
     quality |-> Coalesce(opts, "quality", Str(S_high)),
     timeout |-> Coalesce(opts, "timeout", JNum(DefaultTimeout)),
     userAgent |-> Coalesce(opts, "userAgent", Str(S_agent))]

(***************************************************************************)
(* Result envelopes of downloadVideo.  A key the code does not write is    *)
(* absent from the record.                                                 *)
(***************************************************************************)
InvalidUrlEnvelope ==
    [success |-> FALSE,
     message |-> "Invalid TikTok URL provided",
     error |-> "URL format is not recognized as a valid TikTok video URL"]

NoVideoIdEnvelope ==
    [success |-> FALSE,
     message |-> "Could not extract video ID from URL",
     error |-> "Video ID extraction failed"]

\* a faulty variant: every fetch failure is reported as a timeout
FetchFailedEnvelopeTimeout ==
    [success |-> FALSE,
     message |-> "Request timed out",
     error |-> "timeout of 30000ms exceeded"]

FetchFailedEnvelope ==
    [success |-> FALSE,
     message |-> "Failed to fetch video data",
     error |-> "Could not retrieve video information from TikTok"]

\* a faulty variant: the success envelope also carries an error
SuccessEnvelopeWithError(info, downloadUrls) ==
    [success |-> TRUE,
     message |-> "Video information retrieved successfully",
     data |-> [videoInfo |-> info, downloadUrls |-> downloadUrls],
     error |-> ""]

SuccessEnvelope(info, downloadUrls) ==
    [success |-> TRUE,
     message |-> "Video information retrieved successfully",
     data |-> [videoInfo |-> info, downloadUrls |-> downloadUrls]]

Returned(envelope) == [kind |-> "returned", value |-> envelope]
Rejected(e) == [kind |-> "threw", error |-> e]

\* a faulty variant: the catch block throws again
TopLevelCatchRethrow(e) == Rejected(e)

\* the catch block of downloadVideo
TopLevelCatch(e) ==
    Returned([success |-> FALSE,
              message |-> "An error occurred while processing the video",
              error |-> IF e.isError THEN e.message ELSE "Unknown error"])

(***************************************************************************)
(* fetchVideoData, after the awaited axios.get settled with response.      *)
(* response is [outcome |-> "ok", data |-> document] or                    *)
(* [outcome |-> "error", error |-> e].  A document is [scriptTag |-> x],   *)
(* x what $('script[id=...]').html() returns: null when there is no such   *)
(* element, else its text, which JSON.parse accepts (parses, with value)   *)
(* or rejects.                                                             *)
(***************************************************************************)
NoText == [t |-> "text", empty |-> TRUE, parses |-> FALSE, value |-> undefined]
InvalidText == [t |-> "text", empty |-> FALSE, parses |-> FALSE, value |-> undefined]
JsonText(v) == [t |-> "text", empty |-> FALSE, parses |-> TRUE, value |-> v]

Ok(data) == [outcome |-> "ok", data |-> data]
Failed(e) == [outcome |-> "error", error |-> e]

\* the object literal of lines 207-227, its properties read in order
ProjectVideoInfo(item, stats, music, video) ==
    [id |-> Get(item, "id"),
     title |-> Or(Get(item, "desc"), Str(<<>>)),
     description |-> Or(Get(item, "desc"), Str(<<>>)),
     duration |-> Get(video, "duration"),
     playCount |-> Or(Get(stats, "playCount"), JNum(0)),
     likeCount |-> Or(Get(stats, "diggCount"), JNum(0)),
     commentCount |-> Or(Get(stats, "commentCount"), JNum(0)),
     shareCount |-> Or(Get(stats, "shareCount"), JNum(0)),
     createTime |-> Get(item, "createTime"),
     videoUrl |-> Get(video, "playAddr"),
     coverUrl |-> Get(video, "cover"),
     dynamicCoverUrl |-> Get(video, "dynamicCover"),
     music |-> [id |-> Get(music, "id"),
                title |-> Get(music, "title"),
                author |-> Get(music, "authorName"),
                duration |-> Get(music, "duration"),
                url |-> Get(music, "playUrl")]]

\* the try block of fetchVideoData: the VideoInfo, or what it throws
fetchVideoDataTry(response) ==
    IF response.outcome # "ok" THEN Threw(response.error)
    ELSE LET scriptTag == response.data.scriptTag IN
    IF scriptTag = null \/ scriptTag.empty THEN Threw(NoScriptError)
    ELSE IF ~scriptTag.parses THEN Threw(JsonSyntaxError)
    ELSE LET jsonData == scriptTag.value IN
    IF Nullish(jsonData) THEN Threw(PropertyTypeError)
    ELSE LET scope == Get(jsonData, "__DEFAULT_SCOPE__") IN
    IF Nullish(scope) THEN Threw(PropertyTypeError)
    ELSE LET detail == Get(scope, "webapp.video-detail") IN
    IF ~Truthy(detail) \/ ~Truthy(Get(detail, "itemInfo")) THEN Threw(BadStructureError)
    ELSE LET item == Get(Get(detail, "itemInfo"), "itemStruct") IN
    IF Nullish(item) THEN Threw(PropertyTypeError)
    ELSE LET stats == Get(item, "stats")
             music == Get(item, "music")
             video == Get(item, "video") IN
    IF Nullish(video) \/ Nullish(stats) \/ Nullish(music) THEN Threw(PropertyTypeError)
    ELSE Value(ProjectVideoInfo(item, stats, music, video))

\* a faulty variant: the members are read with optional chaining, so that a missing
\* object gives undefined members instead of a TypeError
fetchVideoDataOptionalChaining(response) ==
    IF ~fetchVideoDataTry(response).threw THEN fetchVideoDataTry(response).value
    ELSE IF fetchVideoDataTry(response).error = PropertyTypeError
    THEN ProjectVideoInfo(undefined, undefined, undefined, undefined)
    ELSE null

\* fetchVideoData: the catch block logs and returns null
fetchVideoData(response) ==
    IF fetchVideoDataTry(response).threw THEN null
    ELSE fetchVideoDataTry(response).value

(***************************************************************************)
(* The download-URL resolver.                                              *)
(***************************************************************************)
\* a faulty variant: the option is not consulted
wantsWatermarkFreeAlways(opts) == TRUE

\* !this.options.includeWatermark
wantsWatermarkFree(opts) == ~Truthy(opts.includeWatermark)

\* the try block of getWatermarkFreeUrl after the awaited axios.get settled
getWatermarkFreeUrlTry(response) ==
    IF response.outcome # "ok" THEN Threw(response.error)
    ELSE IF /\ Truthy(response.data)
            /\ Truthy(Get(response.data, "video"))
            /\ Truthy(Get(Get(response.data, "video"), "noWatermark"))
         THEN Value(Get(Get(response.data, "video"), "noWatermark"))
         ELSE Value(null)

\* getWatermarkFreeUrl: the catch block logs and returns null
getWatermarkFreeUrl(response) ==
    IF getWatermarkFreeUrlTry(response).threw THEN null
    ELSE getWatermarkFreeUrlTry(response).value

\* the two-field result of extractDownloadUrls
BaseDownloadUrls(info) == [video |-> info.videoUrl, audio |-> info.music.url]

\* a faulty variant: watermarkFree is set without the test of watermarkFreeUrl
WithWatermarkFreeAlways(info, watermarkFreeUrl) ==
    [video |-> info.videoUrl, audio |-> info.music.url,
     watermarkFree |-> watermarkFreeUrl]

\* extractDownloadUrls once getWatermarkFreeUrl returned watermarkFreeUrl
WithWatermarkFree(info, watermarkFreeUrl) ==
    IF Truthy(watermarkFreeUrl)
    THEN [video |-> info.videoUrl, audio |-> info.music.url,
          watermarkFree |-> watermarkFreeUrl]
    ELSE BaseDownloadUrls(info)

(***************************************************************************)
(* downloadVideo, one step per stretch of code between two awaits.         *)
(***************************************************************************)
unset == [t |-> "unset"]

\* a faulty variant: the video id is not checked
PreflightNoIdCheck(u) ==
    IF u.t # "string"
    THEN [next |-> "return", result |-> TopLevelCatch(TrimError(u)),
          cleanUrl |-> unset, raised |-> {[at |-> "downloadVideo", error |-> TrimError(u)]}]
    ELSE IF ~isValidTikTokUrl(cleanTikTokUrl(u.s))
         THEN [next |-> "return", result |-> Returned(InvalidUrlEnvelope),
               cleanUrl |-> Str(cleanTikTokUrl(u.s)), raised |-> {}]
         ELSE [next |-> "fetch", result |-> unset,
               cleanUrl |-> Str(cleanTikTokUrl(u.s)), raised |-> {}]

\* lines 65-83: up to the call of fetchVideoData.  url.trim() throws when
\* url is not a string, and the catch block of downloadVideo takes it.
Preflight(u) ==
    IF u.t # "string"
    THEN [next |-> "return", result |-> TopLevelCatch(TrimError(u)),
          cleanUrl |-> unset, raised |-> {[at |-> "downloadVideo", error |-> TrimError(u)]}]
    ELSE LET clean == cleanTikTokUrl(u.s) IN
         IF ~isValidTikTokUrl(clean)
         THEN [next |-> "return", result |-> Returned(InvalidUrlEnvelope),
               cleanUrl |-> Str(clean), raised |-> {}]
         ELSE IF ~Truthy(extractVideoId(clean))
         THEN [next |-> "return", result |-> Returned(NoVideoIdEnvelope),
               cleanUrl |-> Str(clean), raised |-> {}]
         ELSE [next |-> "fetch", result |-> unset,
               cleanUrl |-> Str(clean), raised |-> {}]

\* lines 83-101 once the page request settled with response, up to the
\* awaited request of getWatermarkFreeUrl if extractDownloadUrls makes it.
\* !videoData: fetchVideoData returns null or an object, and an object is truthy.
AfterPage(opts, response) ==
    LET info == fetchVideoData(response)
        thrown == IF fetchVideoDataTry(response).threw
                  THEN {[at |-> "fetchVideoData", error |-> fetchVideoDataTry(response).error]}
                  ELSE {}
    IN  IF info = null
        THEN [next |-> "return", result |-> Returned(FetchFailedEnvelope),
              videoData |-> info, raised |-> thrown]
        ELSE IF wantsWatermarkFree(opts)
        THEN [next |-> "mirror", result |-> unset, videoData |-> info, raised |-> thrown]
        ELSE [next |-> "return",
              result |-> Returned(SuccessEnvelope(info, BaseDownloadUrls(info))),
              videoData |-> info, raised |-> thrown]

\* lines 250-256 and 94-101 once the mirror request settled with response
AfterMirror(info, response) ==
    [result |-> Returned(SuccessEnvelope(info,
                    WithWatermarkFree(info, getWatermarkFreeUrl(response)))),
     raised |-> IF getWatermarkFreeUrlTry(response).threw
                THEN {[at |-> "getWatermarkFreeUrl",
                       error |-> getWatermarkFreeUrlTry(response).error]}
                ELSE {}]

Calls == 1..NumCalls

\* a faulty variant: the response goes to whichever call awaits a request of that kind
ResumeAny(req) ==
    CHOOSE c \in Calls :
        pc[c] = IF req.kind = "page" THEN "awaitPage" ELSE "awaitMirror"

\* the call that resumes when the request req settles: the one awaiting it
Resume(req) == req.call

\* history: the calls that took a step while another call was suspended at
\* one of its awaits
Suspended(c) == pc[c] \in {"awaitPage", "awaitMirror"}
NoteStep(c) ==
    interleaved' = IF \E d \in Calls \ {c} : Suspended(d)
                   THEN interleaved \cup {c}
                   ELSE interleaved

\* the synchronous start of downloadVideo(u) as call c
Start(c, u) ==
    /\ pc[c] = "idle"
    /\ \E p \in {Preflight(u)} :
       /\ url' = [url EXCEPT ![c] = u]
       /\ cleanUrl' = [cleanUrl EXCEPT ![c] = p.cleanUrl]
       /\ raised' = [raised EXCEPT ![c] = p.raised]
       /\ IF p.next = "fetch"
          THEN /\ pc' = [pc EXCEPT ![c] = "awaitPage"]
               /\ net' = net \cup {[call |-> c, kind |-> "page", target |-> p.cleanUrl]}
               /\ sent' = [sent EXCEPT ![c].page = @ + 1]
               /\ UNCHANGED result
          ELSE /\ pc' = [pc EXCEPT ![c] = "done"]
               /\ result' = [result EXCEPT ![c] = p.result]
               /\ UNCHANGED <<net, sent>>
    /\ NoteStep(c)
    /\ UNCHANGED <<options, videoData, got>>

\* the page request req settles with response
PageResponse(req, response) ==
    /\ req \in net
    /\ req.kind = "page"
    /\ \E c \in {Resume(req)}, a \in {AfterPage(options, response)} :
           /\ pc[c] = "awaitPage"
           /\ NoteStep(c)
           /\ got' = [got EXCEPT ![req.call].page = response]
           /\ raised' = [raised EXCEPT ![c] = @ \cup a.raised]
           /\ videoData' = [videoData EXCEPT ![c] = a.videoData]
           /\ IF a.next = "mirror"
              THEN /\ pc' = [pc EXCEPT ![c] = "awaitMirror"]
                   /\ net' = (net \ {req}) \cup
                                {[call |-> c, kind |-> "mirror", target |-> a.videoData.id]}
                   /\ sent' = [sent EXCEPT ![c].mirror = @ + 1]
                   /\ UNCHANGED result
              ELSE /\ pc' = [pc EXCEPT ![c] = "done"]
                   /\ net' = net \ {req}
                   /\ result' = [result EXCEPT ![c] = a.result]
                   /\ UNCHANGED sent
    /\ UNCHANGED <<options, url, cleanUrl>>

\* the mirror request req settles with response
MirrorResponse(req, response) ==
    /\ req \in net
    /\ req.kind = "mirror"
    /\ \E c \in {Resume(req)} :
           /\ pc[c] = "awaitMirror"
           /\ NoteStep(c)
           /\ \E a \in {AfterMirror(videoData[c], response)} :
              /\ got' = [got EXCEPT ![req.call].mirror = response]
              /\ raised' = [raised EXCEPT ![c] = @ \cup a.raised]
              /\ pc' = [pc EXCEPT ![c] = "done"]
              /\ net' = net \ {req}
              /\ result' = [result EXCEPT ![c] = a.result]
    /\ UNCHANGED <<options, url, cleanUrl, videoData, sent>>

(***************************************************************************)
(* Inputs: the URLs passed to downloadVideo.                               *)
(***************************************************************************)
S_http == <<"h", "t", "t", "p", ":", "/", "/">>
S_https == <<"h", "t", "t", "p", "s", ":", "/", "/">>
H_www == <<"w", "w", "w", ".", "t", "i", "k", "t", "o", "k", ".", "c", "o", "m">>
H_bare == <<"t", "i", "k", "t", "o", "k", ".", "c", "o", "m">>
H_m == <<"m", ".", "t", "i", "k", "t", "o", "k", ".", "c", "o", "m">>
H_other == <<"e", "x", "a", "m", "p", "l", "e", ".", "c", "o", "m">>
P_userVideo == <<"/", "@", "u", "s", "e", "r", "/", "v", "i", "d", "e", "o", "/">>
P_share == <<"/", "s", "h", "a", "r", "e", "?", "v", "i", "d", "e", "o", "_", "i", "d", "=">>
P_code == <<"/", "Z", "M", "a", "b", "c">>
P_lang == <<"?", "l", "a", "n", "g", "=", "e", "n">>
P_see == <<"s", "e", "e", " ">>

\* the four URLs of the README's "Supported URL Formats"
ReadmeCanonical == <<"h", "t", "t", "p", "s", ":", "/", "/", "w", "w", "w", ".", "t", "i", "k", "t", "o", "k", ".", "c", "o", "m", "/", "@", "u", "s", "e", "r", "n", "a", "m", "e", "/", "v", "i", "d", "e", "o", "/", "1", "2", "3", "4", "5", "6", "7", "8", "9", "0">>
ReadmeVm == <<"h", "t", "t", "p", "s", ":", "/", "/", "v", "m", ".", "t", "i", "k", "t", "o", "k", ".", "c", "o", "m", "/", "Z", "M", "x", "x", "x", "x", "x", "x", "x", "x">>
ReadmeVt == <<"h", "t", "t", "p", "s", ":", "/", "/", "v", "t", ".", "t", "i", "k", "t", "o", "k", ".", "c", "o", "m", "/", "Z", "S", "x", "x", "x", "x", "x", "x", "x", "x">>
ReadmeMobile == <<"h", "t", "t", "p", "s", ":", "/", "/", "m", ".", "t", "i", "k", "t", "o", "k", ".", "c", "o", "m", "/", "v", "/", "1", "2", "3", "4", "5", "6", "7", "8", "9", "0">>
ReadmeUrls == {ReadmeCanonical, ReadmeVm, ReadmeVt, ReadmeMobile}

IdStrings == {[i \in 1..n |-> "7"] : n \in 0..MaxIdLen}
Pads == {<< <<>>, <<>> >>, << <<" ">>, <<" ", "\n">> >>}
Prefixes == {<<>>, P_see}
Schemes == {<<>>, S_http, S_https}
Hosts == {H_www, H_bare, L_vm, L_vt, H_m, H_other}
Paths == {P_userVideo \o id : id \in IdStrings}
            \cup {L_v \o id : id \in IdStrings}
            \cup {P_share \o id : id \in IdStrings}
            \cup {P_code, <<>>}
Suffixes == {<<>>, P_lang}

UrlStrings ==
    {pad[1] \o pre \o sch \o host \o path \o suf \o pad[2] :
        pad \in Pads, pre \in Prefixes, sch \in Schemes, host \in Hosts,
        path \in Paths, suf \in Suffixes}
    \cup ReadmeUrls

\* a caller that is not type-checked may pass a value that is no string
UrlInputs == {Str(u) : u \in UrlStrings} \cup {undefined, JNum(0)}

(***************************************************************************)
(* Inputs: what the two requests settle with.                              *)
(***************************************************************************)
T_id == <<"4", "2">>
T_desc == <<"c", "l", "i", "p">>
T_play == <<"p", "l", "a", "y">>
T_cover == <<"c", "o", "v", "e", "r">>
T_audio == <<"a", "u", "d", "i", "o">>
T_clean == <<"c", "l", "e", "a", "n">>

WithKey(k, v, f) == IF v = undefined THEN f ELSE (k :> v) @@ f

CountChoices == {undefined} \cup {JNum(n) : n \in 0..MaxCount}
DescChoices == {undefined, Str(T_desc)}

MusicObj ==
    JObj([id |-> Str(T_id), title |-> Str(T_desc), authorName |-> Str(T_desc),
          duration |-> JNum(9), playUrl |-> Str(T_audio)])
VideoObj ==
    JObj([duration |-> JNum(15), playAddr |-> Str(T_play), cover |-> Str(T_cover)])
StatsObj(digg) ==
    JObj(WithKey("diggCount", digg, [playCount |-> JNum(3), shareCount |-> JNum(0)]))

\* an itemStruct; missing names the member left out, if any
Item(desc, digg, missing) ==
    JObj(WithKey("desc", desc,
         WithKey("stats", IF missing = "stats" THEN undefined ELSE StatsObj(digg),
         WithKey("music", IF missing = "music" THEN undefined ELSE MusicObj,
         WithKey("video", IF missing = "video" THEN undefined ELSE VideoObj,
                 [id |-> Str(T_id), createTime |-> JNum(1700000000)])))))

Rehydration(detail) ==
    JObj([__DEFAULT_SCOPE__ |-> JObj(("webapp.video-detail" :> detail) @@ <<>>)])

GoodJson ==
    {Rehydration(JObj([itemInfo |-> JObj([itemStruct |-> Item(d, g, "none")])])) :
        d \in DescChoices, g \in CountChoices}

BrokenJson ==
    {null,
     EmptyObj,
     JObj([__DEFAULT_SCOPE__ |-> null]),
     JObj([__DEFAULT_SCOPE__ |-> EmptyObj]),
     Rehydration(null),
     Rehydration(EmptyObj),
     Rehydration(JObj([itemInfo |-> null])),
     Rehydration(JObj([itemInfo |-> EmptyObj])),
     Rehydration(JObj([itemInfo |-> JObj([itemStruct |-> null])]))}
    \cup {Rehydration(JObj([itemInfo |-> JObj([itemStruct |-> Item(Str(T_desc), JNum(1), m)])])) :
            m \in {"stats", "music", "video"}}

Document(scriptTag) == [scriptTag |-> scriptTag]

PageResponses ==
    {Failed(NetworkError), Failed(TimeoutError), Failed(HttpStatusError),
     Ok(Document(null)), Ok(Document(NoText)), Ok(Document(InvalidText))}
    \cup {Ok(Document(JsonText(j))) : j \in GoodJson \cup BrokenJson}

MirrorResponses ==
    {Failed(NetworkError), Failed(TimeoutError), Failed(HttpStatusError),
     Ok(undefined),
     Ok(Str(T_desc)),
     Ok(EmptyObj),
     Ok(JObj([video |-> null])),
     Ok(JObj([video |-> EmptyObj])),
     Ok(JObj([video |-> JObj([noWatermark |-> null])])),
     Ok(JObj([video |-> JObj([noWatermark |-> Str(<<>>)])])),
     Ok(JObj([video |-> JObj([noWatermark |-> Str(T_clean)])]))}

\* the options objects the constructor is called with
OptionInputs ==
    {<<>>,
     [includeWatermark |-> JTrue],
     [includeWatermark |-> JFalse]}

(***************************************************************************)
(* The specification of one call.                                          *)
(***************************************************************************)
Init ==
    /\ options \in {Constructor(o) : o \in OptionInputs}
    /\ pc = [c \in Calls |-> "idle"]
    /\ url = [c \in Calls |-> unset]
    /\ cleanUrl = [c \in Calls |-> unset]
    /\ videoData = [c \in Calls |-> unset]
    /\ result = [c \in Calls |-> unset]
    /\ net = {}
    /\ sent = [c \in Calls |-> [page |-> 0, mirror |-> 0]]
    /\ got = [c \in Calls |-> [page |-> unset, mirror |-> unset]]
    /\ raised = [c \in Calls |-> {}]
    /\ interleaved = {}

Next ==
    \/ \E u \in UrlInputs : Start(1, u)
    \/ \E req \in net, r \in PageResponses : PageResponse(req, r)
    \/ \E req \in net, r \in MirrorResponses : MirrorResponse(req, r)

Spec == Init /\ [][Next]_vars

(***************************************************************************)
(* The specification of NumCalls calls on one instance, their steps        *)
(* interleaved at the awaits, over a few URLs and responses.               *)
(***************************************************************************)
ConcUrlInputs ==
    {Str(S_https \o H_www \o P_userVideo \o <<"7">>),
     Str(S_https \o L_vm \o P_code),
     Str(H_other)}

ConcPageResponses ==
    {Failed(TimeoutError),
     Ok(Document(JsonText(Rehydration(JObj([itemInfo |->
            JObj([itemStruct |-> Item(Str(T_desc), JNum(1), "none")])]))))),
     Ok(Document(JsonText(Rehydration(JObj([itemInfo |->
            JObj([itemStruct |-> Item(undefined, undefined, "none")])])))))}

ConcMirrorResponses ==
    {Failed(TimeoutError),
     Ok(JObj([video |-> JObj([noWatermark |-> Str(T_clean)])]))}

NextConc ==
    \/ \E c \in Calls, u \in ConcUrlInputs : Start(c, u)
    \/ \E req \in net, r \in ConcPageResponses : PageResponse(req, r)
    \/ \E req \in net, r \in ConcMirrorResponses : MirrorResponse(req, r)

SpecConc == Init /\ [][NextConc]_vars

(***************************************************************************)
(* Vocabulary of the properties.                                           *)
(***************************************************************************)
Done(c) == pc[c] = "done"
Envelope(c) == result[c].value
ReturnedEnvelope(c) == Done(c) /\ result[c].kind = "returned"
Succeeded(c) == ReturnedEnvelope(c) /\ Envelope(c).success
HasVideoInfo(c) == videoData[c] \notin {unset, null}
RaisedAt(c, place) == {x \in raised[c] : x.at = place}
PageTimedOut(c) == got[c].page = Failed(TimeoutError)
MirrorTimedOut(c) == got[c].mirror = Failed(TimeoutError)

\* what is left of u after one of the literals lits, for each that begins u
Rest(u, lits) ==
    {SubSeq(u, Len(l) + 1, Len(u)) : l \in {x \in lits : StartsWithAt(u, 1, x)}}

\* the four documented shapes, the scheme taken off
CanonicalShape(b) ==
    \E w \in Rest(b, {<<>>, L_www}) : \E h \in Rest(w, {L_tiktokAt}) :
        \E n \in 1..Len(h) :
            /\ \A k \in 1..n : h[k] # "/"
            /\ StartsWithAt(h, n + 1, L_video)
            /\ n + Len(L_video) + 1 <= Len(h)
            /\ h[n + Len(L_video) + 1] \in Digits
ShortLinkShape(b, host) ==
    \E r \in Rest(b, {host \o L_slash}) : Len(r) >= 1 /\ r[1] \in Digits \cup Letters
MobileShape(b) == \E r \in Rest(b, {L_mv}) : Len(r) >= 1 /\ r[1] \in Digits
DocumentedShape(b) ==
    \/ CanonicalShape(b)
    \/ ShortLinkShape(b, L_vm)
    \/ ShortLinkShape(b, L_vt)
    \/ MobileShape(b)
ShapeSchemeOptional(u) == \E b \in Rest(u, {<<>>, S_http, S_https}) : DocumentedShape(b)
ShapeSchemeRequired(u) == \E b \in Rest(u, {S_http, S_https}) : DocumentedShape(b)

RejectedAsInvalid(c) ==
    ReturnedEnvelope(c) /\ Envelope(c).message = "Invalid TikTok URL provided"
RejectedForNoId(c) ==
    ReturnedEnvelope(c) /\ Envelope(c).message = "Could not extract video ID from URL"
FetchFailure(c) ==
    /\ ReturnedEnvelope(c)
    /\ ~Envelope(c).success
    /\ Envelope(c).message = "Failed to fetch video data"
    /\ "data" \notin DOMAIN Envelope(c)

\* every segment of __DEFAULT_SCOPE__ / webapp.video-detail / itemInfo /
\* itemStruct is there in the JSON of the page's rehydration script
Segment(v, k) == v.t = "object" /\ k \in DOMAIN v.o /\ ~Nullish(v.o[k])
PagePathPresent(r) ==
    /\ r.outcome = "ok"
    /\ r.data.scriptTag # null
    /\ r.data.scriptTag.parses
    /\ Segment(r.data.scriptTag.value, "__DEFAULT_SCOPE__")
    /\ Segment(r.data.scriptTag.value.o["__DEFAULT_SCOPE__"], "webapp.video-detail")
    /\ Segment(r.data.scriptTag.value.o["__DEFAULT_SCOPE__"].o["webapp.video-detail"],
               "itemInfo")
    /\ Segment(r.data.scriptTag.value.o["__DEFAULT_SCOPE__"].o["webapp.video-detail"]
                    .o["itemInfo"], "itemStruct")

\* the mirror answered with a body that has a non-empty video.noWatermark
MirrorExposes(r) ==
    /\ r # unset
    /\ r.outcome = "ok"
    /\ Segment(r.data, "video")
    /\ Segment(r.data.o["video"], "noWatermark")
    /\ r.data.o["video"].o["noWatermark"].t = "string"
    /\ r.data.o["video"].o["noWatermark"].s # <<>>

\* the result of downloadVideo(u) run alone, its requests settling as in g
SoloAfterPage(a, g) ==
    IF a.next = "return" THEN a.result
    ELSE IF g.mirror = unset THEN unset
    ELSE AfterMirror(a.videoData, g.mirror).result
SoloAfterPreflight(opts, p, g) ==
    IF p.next = "return" THEN p.result
    ELSE IF g.page = unset THEN unset
    ELSE SoloAfterPage(AfterPage(opts, g.page), g)
SoloResult(opts, u, g) == SoloAfterPreflight(opts, Preflight(u), g)

(***************************************************************************)
(* C1.                                                                     *)
(***************************************************************************)
\* C1, as stated: every finished call returned an envelope, and every
\* exception raised during the call, wherever in the pipeline, left a failure
\* envelope whose error is that exception's message.
C1_EveryExceptionSurfaces ==
    \A c \in Calls :
        Done(c) =>
            /\ result[c].kind = "returned"
            /\ \A x \in raised[c] :
                  ~Envelope(c).success /\ Envelope(c).error = x.error.message

\* C1, amended: a call never raises and is never stuck: a finished call
\* returned an envelope, a suspended call has its request in flight.  An
\* exception that reaches the catch block of downloadVideo leaves a failure
\* envelope whose error is its message; one raised inside fetchVideoData
\* leaves the fixed "Failed to fetch video data" envelope; one raised inside
\* getWatermarkFreeUrl leaves a success envelope.
C1_NeverThrows ==
    \A c \in Calls :
        /\ Suspended(c) => \E req \in net : req.call = c
        /\ ~Done(c) => result[c] = unset
        /\ Done(c) =>
            /\ result[c].kind = "returned"
            /\ \A x \in RaisedAt(c, "downloadVideo") :
                  ~Envelope(c).success /\ Envelope(c).error = x.error.message
            /\ \A x \in RaisedAt(c, "fetchVideoData") :
                  /\ ~Envelope(c).success
                  /\ Envelope(c).message = "Failed to fetch video data"
                  /\ Envelope(c).error = "Could not retrieve video information from TikTok"
            /\ \A x \in RaisedAt(c, "getWatermarkFreeUrl") : Envelope(c).success

\* a call whose url was no string: url.trim() threw and the catch block answered
C1_Witness ==
    \E c \in Calls :
        /\ Done(c)
        /\ RaisedAt(c, "downloadVideo") # {}
        /\ Envelope(c).error = "url.trim is not a function"

(***************************************************************************)
(* C2.                                                                     *)
(***************************************************************************)
\* C2: an envelope returned by downloadVideo has exactly one payload: with
\* success, data (videoInfo and downloadUrls) and no error; without, error
\* and no data.
C2_OnePayload ==
    \A c \in Calls :
        Done(c) =>
            /\ result[c].kind = "returned"
            /\ Envelope(c).success =>
                  /\ "data" \in DOMAIN Envelope(c)
                  /\ DOMAIN Envelope(c).data = {"videoInfo", "downloadUrls"}
                  /\ "error" \notin DOMAIN Envelope(c)
            /\ ~Envelope(c).success =>
                  /\ "error" \in DOMAIN Envelope(c)
                  /\ "data" \notin DOMAIN Envelope(c)

\* both shapes were returned: here a success envelope
C2_Witness ==
    \E c \in Calls :
        /\ Succeeded(c)
        /\ "watermarkFree" \in DOMAIN Envelope(c).data.downloadUrls

(***************************************************************************)
(* C3.                                                                     *)
(***************************************************************************)
\* C3: when the page request fails, or its page has no rehydration script,
\* invalid JSON or an absent segment of the path to itemStruct, the call
\* ends with the failure envelope "Failed to fetch video data" without data,
\* and no mirror request was issued.
C3_FetchFailure ==
    \A c \in Calls :
        (got[c].page # unset /\ ~PagePathPresent(got[c].page)) =>
            /\ FetchFailure(c)
            /\ sent[c].mirror = 0
            /\ \A req \in net : ~(req.call = c /\ req.kind = "mirror")

\* the page came with its script and JSON, itemInfo without itemStruct
C3_Witness ==
    \E c \in Calls :
        /\ got[c].page = Ok(Document(JsonText(Rehydration(JObj([itemInfo |-> EmptyObj])))))
        /\ FetchFailure(c)

(***************************************************************************)
(* C4.                                                                     *)
(***************************************************************************)
\* C4: with includeWatermark = true no mirror request is ever issued and no
\* success envelope carries downloadUrls.watermarkFree.
C4_NoMirror ==
    options.includeWatermark = JTrue =>
        /\ \A req \in net : req.kind # "mirror"
        /\ \A c \in Calls :
            /\ sent[c].mirror = 0
            /\ got[c].mirror = unset
            /\ Succeeded(c) =>
                  "watermarkFree" \notin DOMAIN Envelope(c).data.downloadUrls

\* a success with includeWatermark = true
C4_Witness ==
    /\ options.includeWatermark = JTrue
    /\ \E c \in Calls : Succeeded(c)

(***************************************************************************)
(* C5.                                                                     *)
(***************************************************************************)
\* C5: with includeWatermark false and a VideoInfo from the page, the call
\* ends with a success envelope, video = videoInfo.videoUrl and audio =
\* videoInfo.music.url, whatever the mirror request did; watermarkFree is
\* there only when the mirror exposed a non-empty video.noWatermark, and is it.
C5_MirrorBestEffort ==
    \A c \in Calls :
        (Done(c) /\ ~Truthy(options.includeWatermark) /\ HasVideoInfo(c)) =>
            /\ Succeeded(c)
            /\ Envelope(c).data.videoInfo = videoData[c]
            /\ Envelope(c).data.downloadUrls.video = videoData[c].videoUrl
            /\ Envelope(c).data.downloadUrls.audio = videoData[c].music.url
            /\ "watermarkFree" \in DOMAIN Envelope(c).data.downloadUrls =>
                  /\ MirrorExposes(got[c].mirror)
                  /\ Envelope(c).data.downloadUrls.watermarkFree =
                        got[c].mirror.data.o["video"].o["noWatermark"]

\* the mirror request failed and the call succeeded all the same
C5_Witness ==
    \E c \in Calls :
        /\ got[c].mirror = Failed(HttpStatusError)
        /\ Succeeded(c)
        /\ DOMAIN Envelope(c).data.downloadUrls = {"video", "audio"}

(***************************************************************************)
(* C6.                                                                     *)
(***************************************************************************)
\* C6: per call, the page request is issued once, exactly when the
\* normalized URL passed validation and gave a video id, and never again;
\* the mirror request is issued at most once and only after the page request
\* settled and gave a VideoInfo; at most one request is in flight.
C6_RequestOrder ==
    \A c \in Calls :
        /\ sent[c].page <= 1
        /\ sent[c].mirror <= 1
        /\ Cardinality({req \in net : req.call = c}) <= 1
        /\ sent[c].page = 1 <=>
              /\ pc[c] # "idle"
              /\ url[c].t = "string"
              /\ isValidTikTokUrl(cleanUrl[c].s)
              /\ extractVideoId(cleanUrl[c].s) # null
        /\ sent[c].mirror = 1 =>
              /\ sent[c].page = 1
              /\ got[c].page # unset
              /\ \A req \in net : ~(req.call = c /\ req.kind = "page")
              /\ HasVideoInfo(c)

\* a call that made both requests
C6_Witness ==
    \E c \in Calls : Done(c) /\ sent[c].page = 1 /\ sent[c].mirror = 1

(***************************************************************************)
(* C7.                                                                     *)
(***************************************************************************)
\* C7, as stated: the normalized URL is rejected as invalid exactly when it
\* matches none of the four shapes anchored at its start, the scheme optional.
C7_SchemeOptional ==
    \A c \in Calls :
        (pc[c] # "idle" /\ url[c].t = "string") =>
            (RejectedAsInvalid(c) <=> ~ShapeSchemeOptional(cleanUrl[c].s))

\* C7, amended: the normalized URL is rejected as invalid, with the message
\* "Invalid TikTok URL provided", exactly when it does not begin with http://
\* or https:// followed by one of the four shapes.
C7_SchemeRequired ==
    \A c \in Calls :
        (pc[c] # "idle" /\ url[c].t = "string") =>
            (RejectedAsInvalid(c) <=> ~ShapeSchemeRequired(cleanUrl[c].s))

\* a canonical URL without its scheme, rejected
C7_Witness ==
    \E c \in Calls :
        /\ url[c] = Str(H_www \o P_userVideo \o <<"7">>)
        /\ RejectedAsInvalid(c)

(***************************************************************************)
(* C8.                                                                     *)
(***************************************************************************)
\* C8: a call with one of the README's four supported URLs fails neither at
\* validation nor at the extraction of the video id: it issues the page
\* request.
C8_ReadmeUrlsReachFetch ==
    \A c \in Calls :
        (pc[c] # "idle" /\ url[c].t = "string" /\ url[c].s \in ReadmeUrls) =>
            /\ sent[c].page = 1
            /\ ~RejectedAsInvalid(c)
            /\ ~RejectedForNoId(c)

(***************************************************************************)
(* C9.                                                                     *)
(***************************************************************************)
\* C9, as stated: a call one of whose requests timed out ends with a failure
\* whose error is the timeout's.
C9_TimeoutFails ==
    \A c \in Calls :
        (Done(c) /\ (PageTimedOut(c) \/ MirrorTimedOut(c))) =>
            /\ ReturnedEnvelope(c)
            /\ ~Envelope(c).success
            /\ Envelope(c).error = TimeoutError.message

\* C9, amended: a timeout of the page request ends the call with the failure
\* "Failed to fetch video data" and the fixed error text of every fetch
\* failure, with no mirror request; a timeout of the mirror request ends it
\* with a success envelope without watermarkFree.
C9_TimeoutOutcome ==
    \A c \in Calls :
        Done(c) =>
            /\ PageTimedOut(c) =>
                  /\ FetchFailure(c)
                  /\ Envelope(c).error = "Could not retrieve video information from TikTok"
                  /\ sent[c].mirror = 0
            /\ MirrorTimedOut(c) =>
                  /\ Succeeded(c)
                  /\ "watermarkFree" \notin DOMAIN Envelope(c).data.downloadUrls

\* the mirror request timed out
C9_Witness == \E c \in Calls : Done(c) /\ MirrorTimedOut(c) /\ Succeeded(c)

(***************************************************************************)
(* C10.                                                                    *)
(***************************************************************************)
\* C10: under every interleaving of the calls on one instance, a finished
\* call's result is the one the call returns alone with the same URL and the
\* same responses to its own requests, and no step changes the options.
C10_Independent ==
    [][/\ options' = options
       /\ \A c \in Calls :
             /\ (pc[c] # "done" /\ pc'[c] = "done") =>
                    result'[c] = SoloResult(options', url'[c], got'[c])
             /\ pc[c] = "done" =>
                    (pc'[c] = "done" /\ result'[c] = result[c] /\ url'[c] = url[c]
                        /\ got'[c] = got[c])]_vars

\* two calls finished differently, each having stepped while the other was
\* suspended
C10_Witness ==
    /\ Done(1) /\ Done(2)
    /\ {1, 2} \subseteq interleaved
    /\ Succeeded(1)
    /\ FetchFailure(2)

====
